---- MODULE Spec2Model ----
(***************************************************************************)
(* Model of the real-time speech-to-text pipeline of src/main.py:          *)
(* the capture callback (producer), the transcribe worker thread           *)
(* (consumer), the mutex-guarded last_transcription slot, stop(), and the  *)
(* module-level poll loop.                                                 *)
(*                                                                         *)
(* Text is modelled as the sequence of its code points so that             *)
(* str.strip(), str.lower() and the substring test are computed.           *)
(***************************************************************************)
EXTENDS Integers, Sequences, FiniteSets, TLC

\* ---------------------------------------------------------------- bounds
MaxSegs == 2        \* number of recorder_callback invocations explored
MaxStops == 1       \* number of stop() calls made by an API caller besides the poll loop
MaxSegsFair == 1    \* recorder_callback invocations explored under fairness
MaxSegsDrain == 3   \* recorder_callback invocations explored when only the poll loop stops
MaxSegsStart == 1   \* recorder_callback invocations explored after a modelled start-up
MaxDevices == 2     \* number of audio devices PyAudio enumerates

\* ---------------------------------------------------------------- text
\* A text is the sequence of the code points of a Python str (ord() of each
\* character): "Stop" is <<83, 116, 111, 112>>.
EmptyStr == << >>

\* the characters str.strip() removes, i.e. those for which str.isspace()
\* holds: \t \n \v \f \r (9..13), the separators 0x1C..0x1F (28..31), the
\* space (32), U+0085 (133), U+00A0 (160), U+1680 (5760), U+2000..U+200A
\* (8192..8202), U+2028, U+2029 (8232, 8233), U+202F (8239), U+205F (8287)
\* and U+3000 (12288)
Whitespace == (9..13) \cup (28..32) \cup {133, 160, 5760} \cup (8192..8202)
              \cup {8232, 8233, 8239, 8287, 12288}

\* The simple lower-case mapping of str.lower(): a rule <<lo, hi, step, d>>
\* sends the code points lo, lo + step, ..., hi to themselves plus d.  The
\* rules cover every code point with a one-character lower-case form other
\* than itself (A..Z is <<65, 90, 1, 32>>); no code point is in two rules.
LowerRules == <<
    <<65, 90, 1, 32>>, <<192, 214, 1, 32>>, <<216, 222, 1, 32>>, <<256, 302,
    2, 1>>, <<306, 310, 2, 1>>, <<313, 327, 2, 1>>, <<330, 374, 2, 1>>, <<376,
    376, 1, -121>>, <<377, 381, 2, 1>>, <<385, 385, 1, 210>>, <<386, 388, 2,
    1>>, <<390, 390, 1, 206>>, <<391, 391, 1, 1>>, <<393, 394, 1, 205>>,
    <<395, 395, 1, 1>>, <<398, 398, 1, 79>>, <<399, 399, 1, 202>>, <<400, 400,
    1, 203>>, <<401, 401, 1, 1>>, <<403, 403, 1, 205>>, <<404, 404, 1, 207>>,
    <<406, 406, 1, 211>>, <<407, 407, 1, 209>>, <<408, 408, 1, 1>>, <<412,
    412, 1, 211>>, <<413, 413, 1, 213>>, <<415, 415, 1, 214>>, <<416, 420, 2,
    1>>, <<422, 422, 1, 218>>, <<423, 423, 1, 1>>, <<425, 425, 1, 218>>,
    <<428, 428, 1, 1>>, <<430, 430, 1, 218>>, <<431, 431, 1, 1>>, <<433, 434,
    1, 217>>, <<435, 437, 2, 1>>, <<439, 439, 1, 219>>, <<440, 440, 1, 1>>,
    <<444, 444, 1, 1>>, <<452, 452, 1, 2>>, <<453, 453, 1, 1>>, <<455, 455, 1,
    2>>, <<456, 456, 1, 1>>, <<458, 458, 1, 2>>, <<459, 475, 2, 1>>, <<478,
    494, 2, 1>>, <<497, 497, 1, 2>>, <<498, 500, 2, 1>>, <<502, 502, 1, -97>>,
    <<503, 503, 1, -56>>, <<504, 542, 2, 1>>, <<544, 544, 1, -130>>, <<546,
    562, 2, 1>>, <<570, 570, 1, 10795>>, <<571, 571, 1, 1>>, <<573, 573, 1,
    -163>>, <<574, 574, 1, 10792>>, <<577, 577, 1, 1>>, <<579, 579, 1, -195>>,
    <<580, 580, 1, 69>>, <<581, 581, 1, 71>>, <<582, 590, 2, 1>>, <<880, 882,
    2, 1>>, <<886, 886, 1, 1>>, <<895, 895, 1, 116>>, <<902, 902, 1, 38>>,
    <<904, 906, 1, 37>>, <<908, 908, 1, 64>>, <<910, 911, 1, 63>>, <<913, 929,
    1, 32>>, <<931, 939, 1, 32>>, <<975, 975, 1, 8>>, <<984, 1006, 2, 1>>,
    <<1012, 1012, 1, -60>>, <<1015, 1015, 1, 1>>, <<1017, 1017, 1, -7>>,
    <<1018, 1018, 1, 1>>, <<1021, 1023, 1, -130>>, <<1024, 1039, 1, 80>>,
    <<1040, 1071, 1, 32>>, <<1120, 1152, 2, 1>>, <<1162, 1214, 2, 1>>, <<1216,
    1216, 1, 15>>, <<1217, 1229, 2, 1>>, <<1232, 1326, 2, 1>>, <<1329, 1366,
    1, 48>>, <<4256, 4293, 1, 7264>>, <<4295, 4295, 1, 7264>>, <<4301, 4301,
    1, 7264>>, <<5024, 5103, 1, 38864>>, <<5104, 5109, 1, 8>>, <<7312, 7354,
    1, -3008>>, <<7357, 7359, 1, -3008>>, <<7680, 7828, 2, 1>>, <<7838, 7838,
    1, -7615>>, <<7840, 7934, 2, 1>>, <<7944, 7951, 1, -8>>, <<7960, 7965, 1,
    -8>>, <<7976, 7983, 1, -8>>, <<7992, 7999, 1, -8>>, <<8008, 8013, 1, -8>>,
    <<8025, 8031, 2, -8>>, <<8040, 8047, 1, -8>>, <<8072, 8079, 1, -8>>,
    <<8088, 8095, 1, -8>>, <<8104, 8111, 1, -8>>, <<8120, 8121, 1, -8>>,
    <<8122, 8123, 1, -74>>, <<8124, 8124, 1, -9>>, <<8136, 8139, 1, -86>>,
    <<8140, 8140, 1, -9>>, <<8152, 8153, 1, -8>>, <<8154, 8155, 1, -100>>,
    <<8168, 8169, 1, -8>>, <<8170, 8171, 1, -112>>, <<8172, 8172, 1, -7>>,
    <<8184, 8185, 1, -128>>, <<8186, 8187, 1, -126>>, <<8188, 8188, 1, -9>>,
    <<8486, 8486, 1, -7517>>, <<8490, 8490, 1, -8383>>, <<8491, 8491, 1,
    -8262>>, <<8498, 8498, 1, 28>>, <<8544, 8559, 1, 16>>, <<8579, 8579, 1,
    1>>, <<9398, 9423, 1, 26>>, <<11264, 11311, 1, 48>>, <<11360, 11360, 1,
    1>>, <<11362, 11362, 1, -10743>>, <<11363, 11363, 1, -3814>>, <<11364,
    11364, 1, -10727>>, <<11367, 11371, 2, 1>>, <<11373, 11373, 1, -10780>>,
    <<11374, 11374, 1, -10749>>, <<11375, 11375, 1, -10783>>, <<11376, 11376,
    1, -10782>>, <<11378, 11378, 1, 1>>, <<11381, 11381, 1, 1>>, <<11390,
    11391, 1, -10815>>, <<11392, 11490, 2, 1>>, <<11499, 11501, 2, 1>>,
    <<11506, 11506, 1, 1>>, <<42560, 42604, 2, 1>>, <<42624, 42650, 2, 1>>,
    <<42786, 42798, 2, 1>>, <<42802, 42862, 2, 1>>, <<42873, 42875, 2, 1>>,
    <<42877, 42877, 1, -35332>>, <<42878, 42886, 2, 1>>, <<42891, 42891, 1,
    1>>, <<42893, 42893, 1, -42280>>, <<42896, 42898, 2, 1>>, <<42902, 42920,
    2, 1>>, <<42922, 42922, 1, -42308>>, <<42923, 42923, 1, -42319>>, <<42924,
    42924, 1, -42315>>, <<42925, 42925, 1, -42305>>, <<42926, 42926, 1,
    -42308>>, <<42928, 42928, 1, -42258>>, <<42929, 42929, 1, -42282>>,
    <<42930, 42930, 1, -42261>>, <<42931, 42931, 1, 928>>, <<42932, 42946, 2,
    1>>, <<42948, 42948, 1, -48>>, <<42949, 42949, 1, -42307>>, <<42950,
    42950, 1, -35384>>, <<42951, 42953, 2, 1>>, <<42960, 42960, 1, 1>>,
    <<42966, 42968, 2, 1>>, <<42997, 42997, 1, 1>>, <<65313, 65338, 1, 32>>,
    <<66560, 66599, 1, 40>>, <<66736, 66771, 1, 40>>, <<66928, 66938, 1, 39>>,
    <<66940, 66954, 1, 39>>, <<66956, 66962, 1, 39>>, <<66964, 66965, 1, 39>>,
    <<68736, 68786, 1, 64>>, <<71840, 71871, 1, 32>>, <<93760, 93791, 1, 32>>,
    <<125184, 125217, 1, 34>> >>

\* the pairs <<c, lower-case form of c>> the rules stand for
LowerPairs ==
    UNION {{<<r[1] + k * r[3], r[1] + k * r[3] + r[4]>> : k \in 0..((r[2] - r[1]) \div r[3])} :
           r \in {LowerRules[i] : i \in 1..Len(LowerRules)}}

\* the simple lower-case mapping as a function on the code points it changes
LowerMap ==
    [c \in {p[1] : p \in LowerPairs} |-> (CHOOSE p \in LowerPairs : p[1] = c)[2]]

\* str.lower() of the one-character string chr(c); U+0130 (304) is the one
\* code point whose lower-case form has two characters, U+0069 U+0307
LowerChar(c) ==
    IF c = 304 THEN <<105, 775>>
    ELSE IF c \in DOMAIN LowerMap THEN <<LowerMap[c]>>
    ELSE <<c>>

\* ranges <<first, last>> of the case-ignorable code points, which the
\* final-sigma rule of str.lower() skips
CaseIgnorableRanges == <<
    <<39, 39>>, <<46, 46>>, <<58, 58>>, <<94, 94>>, <<96, 96>>, <<168, 168>>,
    <<173, 173>>, <<175, 175>>, <<180, 180>>, <<183, 184>>, <<688, 879>>,
    <<884, 885>>, <<890, 890>>, <<900, 901>>, <<903, 903>>, <<1155, 1161>>,
    <<1369, 1369>>, <<1375, 1375>>, <<1425, 1469>>, <<1471, 1471>>, <<1473,
    1474>>, <<1476, 1477>>, <<1479, 1479>>, <<1524, 1524>>, <<1536, 1541>>,
    <<1552, 1562>>, <<1564, 1564>>, <<1600, 1600>>, <<1611, 1631>>, <<1648,
    1648>>, <<1750, 1757>>, <<1759, 1768>>, <<1770, 1773>>, <<1807, 1807>>,
    <<1809, 1809>>, <<1840, 1866>>, <<1958, 1968>>, <<2027, 2037>>, <<2042,
    2042>>, <<2045, 2045>>, <<2070, 2093>>, <<2137, 2139>>, <<2184, 2184>>,
    <<2192, 2193>>, <<2200, 2207>>, <<2249, 2306>>, <<2362, 2362>>, <<2364,
    2364>>, <<2369, 2376>>, <<2381, 2381>>, <<2385, 2391>>, <<2402, 2403>>,
    <<2417, 2417>>, <<2433, 2433>>, <<2492, 2492>>, <<2497, 2500>>, <<2509,
    2509>>, <<2530, 2531>>, <<2558, 2558>>, <<2561, 2562>>, <<2620, 2620>>,
    <<2625, 2626>>, <<2631, 2632>>, <<2635, 2637>>, <<2641, 2641>>, <<2672,
    2673>>, <<2677, 2677>>, <<2689, 2690>>, <<2748, 2748>>, <<2753, 2757>>,
    <<2759, 2760>>, <<2765, 2765>>, <<2786, 2787>>, <<2810, 2815>>, <<2817,
    2817>>, <<2876, 2876>>, <<2879, 2879>>, <<2881, 2884>>, <<2893, 2893>>,
    <<2901, 2902>>, <<2914, 2915>>, <<2946, 2946>>, <<3008, 3008>>, <<3021,
    3021>>, <<3072, 3072>>, <<3076, 3076>>, <<3132, 3132>>, <<3134, 3136>>,
    <<3142, 3144>>, <<3146, 3149>>, <<3157, 3158>>, <<3170, 3171>>, <<3201,
    3201>>, <<3260, 3260>>, <<3263, 3263>>, <<3270, 3270>>, <<3276, 3277>>,
    <<3298, 3299>>, <<3328, 3329>>, <<3387, 3388>>, <<3393, 3396>>, <<3405,
    3405>>, <<3426, 3427>>, <<3457, 3457>>, <<3530, 3530>>, <<3538, 3540>>,
    <<3542, 3542>>, <<3633, 3633>>, <<3636, 3642>>, <<3654, 3662>>, <<3761,
    3761>>, <<3764, 3772>>, <<3782, 3782>>, <<3784, 3789>>, <<3864, 3865>>,
    <<3893, 3893>>, <<3895, 3895>>, <<3897, 3897>>, <<3953, 3966>>, <<3968,
    3972>>, <<3974, 3975>>, <<3981, 3991>>, <<3993, 4028>>, <<4038, 4038>>,
    <<4141, 4144>>, <<4146, 4151>>, <<4153, 4154>>, <<4157, 4158>>, <<4184,
    4185>>, <<4190, 4192>>, <<4209, 4212>>, <<4226, 4226>>, <<4229, 4230>>,
    <<4237, 4237>>, <<4253, 4253>>, <<4348, 4348>>, <<4957, 4959>>, <<5906,
    5908>>, <<5938, 5939>>, <<5970, 5971>>, <<6002, 6003>>, <<6068, 6069>>,
    <<6071, 6077>>, <<6086, 6086>>, <<6089, 6099>>, <<6103, 6103>>, <<6109,
    6109>>, <<6155, 6159>>, <<6211, 6211>>, <<6277, 6278>>, <<6313, 6313>>,
    <<6432, 6434>>, <<6439, 6440>>, <<6450, 6450>>, <<6457, 6459>>, <<6679,
    6680>>, <<6683, 6683>>, <<6742, 6742>>, <<6744, 6750>>, <<6752, 6752>>,
    <<6754, 6754>>, <<6757, 6764>>, <<6771, 6780>>, <<6783, 6783>>, <<6823,
    6823>>, <<6832, 6862>>, <<6912, 6915>>, <<6964, 6964>>, <<6966, 6970>>,
    <<6972, 6972>>, <<6978, 6978>>, <<7019, 7027>>, <<7040, 7041>>, <<7074,
    7077>>, <<7080, 7081>>, <<7083, 7085>>, <<7142, 7142>>, <<7144, 7145>>,
    <<7149, 7149>>, <<7151, 7153>>, <<7212, 7219>>, <<7222, 7223>>, <<7288,
    7293>>, <<7376, 7378>>, <<7380, 7392>>, <<7394, 7400>>, <<7405, 7405>>,
    <<7412, 7412>>, <<7416, 7417>>, <<7468, 7530>>, <<7544, 7544>>, <<7579,
    7679>>, <<8125, 8125>>, <<8127, 8129>>, <<8141, 8143>>, <<8157, 8159>>,
    <<8173, 8175>>, <<8189, 8190>>, <<8203, 8207>>, <<8216, 8217>>, <<8228,
    8228>>, <<8231, 8231>>, <<8234, 8238>>, <<8288, 8292>>, <<8294, 8303>>,
    <<8305, 8305>>, <<8319, 8319>>, <<8336, 8348>>, <<8400, 8432>>, <<11388,
    11389>>, <<11503, 11505>>, <<11631, 11631>>, <<11647, 11647>>, <<11744,
    11775>>, <<11823, 11823>>, <<12293, 12293>>, <<12330, 12333>>, <<12337,
    12341>>, <<12347, 12347>>, <<12441, 12446>>, <<12540, 12542>>, <<40981,
    40981>>, <<42232, 42237>>, <<42508, 42508>>, <<42607, 42610>>, <<42612,
    42621>>, <<42623, 42623>>, <<42652, 42655>>, <<42736, 42737>>, <<42752,
    42785>>, <<42864, 42864>>, <<42888, 42890>>, <<42994, 42996>>, <<43000,
    43001>>, <<43010, 43010>>, <<43014, 43014>>, <<43019, 43019>>, <<43045,
    43046>>, <<43052, 43052>>, <<43204, 43205>>, <<43232, 43249>>, <<43263,
    43263>>, <<43302, 43309>>, <<43335, 43345>>, <<43392, 43394>>, <<43443,
    43443>>, <<43446, 43449>>, <<43452, 43453>>, <<43471, 43471>>, <<43493,
    43494>>, <<43561, 43566>>, <<43569, 43570>>, <<43573, 43574>>, <<43587,
    43587>>, <<43596, 43596>>, <<43632, 43632>>, <<43644, 43644>>, <<43696,
    43696>>, <<43698, 43700>>, <<43703, 43704>>, <<43710, 43711>>, <<43713,
    43713>>, <<43741, 43741>>, <<43756, 43757>>, <<43763, 43764>>, <<43766,
    43766>>, <<43867, 43871>>, <<43881, 43883>>, <<44005, 44005>>, <<44008,
    44008>>, <<44013, 44013>>, <<64286, 64286>>, <<64434, 64450>>, <<65024,
    65039>>, <<65043, 65043>>, <<65056, 65071>>, <<65106, 65106>>, <<65109,
    65109>>, <<65279, 65279>>, <<65287, 65287>>, <<65294, 65294>>, <<65306,
    65306>>, <<65342, 65342>>, <<65344, 65344>>, <<65392, 65392>>, <<65438,
    65439>>, <<65507, 65507>>, <<65529, 65531>>, <<66045, 66045>>, <<66272,
    66272>>, <<66422, 66426>>, <<67456, 67461>>, <<67463, 67504>>, <<67506,
    67514>>, <<68097, 68099>>, <<68101, 68102>>, <<68108, 68111>>, <<68152,
    68154>>, <<68159, 68159>>, <<68325, 68326>>, <<68900, 68903>>, <<69291,
    69292>>, <<69446, 69456>>, <<69506, 69509>>, <<69633, 69633>>, <<69688,
    69702>>, <<69744, 69744>>, <<69747, 69748>>, <<69759, 69761>>, <<69811,
    69814>>, <<69817, 69818>>, <<69821, 69821>>, <<69826, 69826>>, <<69837,
    69837>>, <<69888, 69890>>, <<69927, 69931>>, <<69933, 69940>>, <<70003,
    70003>>, <<70016, 70017>>, <<70070, 70078>>, <<70089, 70092>>, <<70095,
    70095>>, <<70191, 70193>>, <<70196, 70196>>, <<70198, 70199>>, <<70206,
    70206>>, <<70367, 70367>>, <<70371, 70378>>, <<70400, 70401>>, <<70459,
    70460>>, <<70464, 70464>>, <<70502, 70508>>, <<70512, 70516>>, <<70712,
    70719>>, <<70722, 70724>>, <<70726, 70726>>, <<70750, 70750>>, <<70835,
    70840>>, <<70842, 70842>>, <<70847, 70848>>, <<70850, 70851>>, <<71090,
    71093>>, <<71100, 71101>>, <<71103, 71104>>, <<71132, 71133>>, <<71219,
    71226>>, <<71229, 71229>>, <<71231, 71232>>, <<71339, 71339>>, <<71341,
    71341>>, <<71344, 71349>>, <<71351, 71351>>, <<71453, 71455>>, <<71458,
    71461>>, <<71463, 71467>>, <<71727, 71735>>, <<71737, 71738>>, <<71995,
    71996>>, <<71998, 71998>>, <<72003, 72003>>, <<72148, 72151>>, <<72154,
    72155>>, <<72160, 72160>>, <<72193, 72202>>, <<72243, 72248>>, <<72251,
    72254>>, <<72263, 72263>>, <<72273, 72278>>, <<72281, 72283>>, <<72330,
    72342>>, <<72344, 72345>>, <<72752, 72758>>, <<72760, 72765>>, <<72767,
    72767>>, <<72850, 72871>>, <<72874, 72880>>, <<72882, 72883>>, <<72885,
    72886>>, <<73009, 73014>>, <<73018, 73018>>, <<73020, 73021>>, <<73023,
    73029>>, <<73031, 73031>>, <<73104, 73105>>, <<73109, 73109>>, <<73111,
    73111>>, <<73459, 73460>>, <<78896, 78904>>, <<92912, 92916>>, <<92976,
    92982>>, <<92992, 92995>>, <<94031, 94031>>, <<94095, 94111>>, <<94176,
    94177>>, <<94179, 94180>>, <<110576, 110579>>, <<110581, 110587>>,
    <<110589, 110590>>, <<113821, 113822>>, <<113824, 113827>>, <<118528,
    118573>>, <<118576, 118598>>, <<119143, 119145>>, <<119155, 119170>>,
    <<119173, 119179>>, <<119210, 119213>>, <<119362, 119364>>, <<121344,
    121398>>, <<121403, 121452>>, <<121461, 121461>>, <<121476, 121476>>,
    <<121499, 121503>>, <<121505, 121519>>, <<122880, 122886>>, <<122888,
    122904>>, <<122907, 122913>>, <<122915, 122916>>, <<122918, 122922>>,
    <<123184, 123197>>, <<123566, 123566>>, <<123628, 123631>>, <<125136,
    125142>>, <<125252, 125259>>, <<127995, 127999>>, <<917505, 917505>>,
    <<917536, 917631>>, <<917760, 917999>> >>

\* ranges <<first, last>> of the cased code points that are not
\* case-ignorable
CasedRanges == <<
    <<65, 90>>, <<97, 122>>, <<170, 170>>, <<181, 181>>, <<186, 186>>, <<192,
    214>>, <<216, 246>>, <<248, 442>>, <<444, 447>>, <<452, 659>>, <<661,
    687>>, <<880, 883>>, <<886, 887>>, <<891, 893>>, <<895, 895>>, <<902,
    902>>, <<904, 906>>, <<908, 908>>, <<910, 929>>, <<931, 1013>>, <<1015,
    1153>>, <<1162, 1327>>, <<1329, 1366>>, <<1376, 1416>>, <<4256, 4293>>,
    <<4295, 4295>>, <<4301, 4301>>, <<4304, 4346>>, <<4349, 4351>>, <<5024,
    5109>>, <<5112, 5117>>, <<7296, 7304>>, <<7312, 7354>>, <<7357, 7359>>,
    <<7424, 7467>>, <<7531, 7543>>, <<7545, 7578>>, <<7680, 7957>>, <<7960,
    7965>>, <<7968, 8005>>, <<8008, 8013>>, <<8016, 8023>>, <<8025, 8025>>,
    <<8027, 8027>>, <<8029, 8029>>, <<8031, 8061>>, <<8064, 8116>>, <<8118,
    8124>>, <<8126, 8126>>, <<8130, 8132>>, <<8134, 8140>>, <<8144, 8147>>,
    <<8150, 8155>>, <<8160, 8172>>, <<8178, 8180>>, <<8182, 8188>>, <<8450,
    8450>>, <<8455, 8455>>, <<8458, 8467>>, <<8469, 8469>>, <<8473, 8477>>,
    <<8484, 8484>>, <<8486, 8486>>, <<8488, 8488>>, <<8490, 8493>>, <<8495,
    8500>>, <<8505, 8505>>, <<8508, 8511>>, <<8517, 8521>>, <<8526, 8526>>,
    <<8544, 8575>>, <<8579, 8580>>, <<9398, 9449>>, <<11264, 11387>>, <<11390,
    11492>>, <<11499, 11502>>, <<11506, 11507>>, <<11520, 11557>>, <<11559,
    11559>>, <<11565, 11565>>, <<42560, 42605>>, <<42624, 42651>>, <<42786,
    42863>>, <<42865, 42887>>, <<42891, 42894>>, <<42896, 42954>>, <<42960,
    42961>>, <<42963, 42963>>, <<42965, 42969>>, <<42997, 42998>>, <<43002,
    43002>>, <<43824, 43866>>, <<43872, 43880>>, <<43888, 43967>>, <<64256,
    64262>>, <<64275, 64279>>, <<65313, 65338>>, <<65345, 65370>>, <<66560,
    66639>>, <<66736, 66771>>, <<66776, 66811>>, <<66928, 66938>>, <<66940,
    66954>>, <<66956, 66962>>, <<66964, 66965>>, <<66967, 66977>>, <<66979,
    66993>>, <<66995, 67001>>, <<67003, 67004>>, <<68736, 68786>>, <<68800,
    68850>>, <<71840, 71903>>, <<93760, 93823>>, <<119808, 119892>>, <<119894,
    119964>>, <<119966, 119967>>, <<119970, 119970>>, <<119973, 119974>>,
    <<119977, 119980>>, <<119982, 119993>>, <<119995, 119995>>, <<119997,
    120003>>, <<120005, 120069>>, <<120071, 120074>>, <<120077, 120084>>,
    <<120086, 120092>>, <<120094, 120121>>, <<120123, 120126>>, <<120128,
    120132>>, <<120134, 120134>>, <<120138, 120144>>, <<120146, 120485>>,
    <<120488, 120512>>, <<120514, 120538>>, <<120540, 120570>>, <<120572,
    120596>>, <<120598, 120628>>, <<120630, 120654>>, <<120656, 120686>>,
    <<120688, 120712>>, <<120714, 120744>>, <<120746, 120770>>, <<120772,
    120779>>, <<122624, 122633>>, <<122635, 122654>>, <<125184, 125251>>,
    <<127280, 127305>>, <<127312, 127337>>, <<127344, 127369>> >>

InRanges(c, ranges) ==
    \E i \in 1..Len(ranges) : ranges[i][1] <= c /\ c <= ranges[i][2]

CaseIgnorable(c) == InRanges(c, CaseIgnorableRanges)

Cased(c) == InRanges(c, CasedRanges)

\* is the nearest character at or before position j that is not
\* case-ignorable a cased one
RECURSIVE CasedBefore(_, _)
CasedBefore(s, j) ==
    IF j < 1 THEN FALSE
    ELSE IF CaseIgnorable(s[j]) THEN CasedBefore(s, j - 1)
    ELSE Cased(s[j])

\* is the nearest character at or after position j that is not
\* case-ignorable a cased one
RECURSIVE CasedAfter(_, _)
CasedAfter(s, j) ==
    IF j > Len(s) THEN FALSE
    ELSE IF CaseIgnorable(s[j]) THEN CasedAfter(s, j + 1)
    ELSE Cased(s[j])

\* str.lower() writes a capital sigma (U+03A3, 931) at position i as the
\* final sigma U+03C2 (962) when it ends a word, else as U+03C3 (963)
FinalSigma(s, i) == CasedBefore(s, i - 1) /\ ~CasedAfter(s, i + 1)

\* the lower-case form of the character at position i of s
LowerAt(s, i) ==
    IF s[i] = 931 THEN <<IF FinalSigma(s, i) THEN 962 ELSE 963>>
    ELSE LowerChar(s[i])

RECURSIVE LowerFrom(_, _)
LowerFrom(s, i) ==
    IF i > Len(s) THEN << >> ELSE LowerAt(s, i) \o LowerFrom(s, i + 1)

\* str.lower()
Lower_Identity(s) == s
Lower(s) == LowerFrom(s, 1)

\* str.lstrip() / str.rstrip() / str.strip()
RECURSIVE LStrip(_)
LStrip(s) == IF s # << >> /\ Head(s) \in Whitespace THEN LStrip(Tail(s)) ELSE s

RECURSIVE RStrip(_)
RStrip(s) == IF s # << >> /\ s[Len(s)] \in Whitespace
             THEN RStrip(SubSeq(s, 1, Len(s) - 1)) ELSE s

Strip(s) == RStrip(LStrip(s))

\* Python's `needle in hay` on strings
Contains(hay, needle) ==
    \E i \in 1..(Len(hay) - Len(needle) + 1) :
        SubSeq(hay, i, i + Len(needle) - 1) = needle

\* "stop"
StopKeyword == <<115, 116, 111, 112>>

\* the poll loop's test: "stop" in last_transcription.lower()
HasStopKeyword(s) == Contains(Lower(s), StopKeyword)

\* ---------------------------------------------------------------- engine
\* The audio buffers the capture subsystem can hand over, and what the
\* transcription engine returns for each (segment.text, before strip()).
Audios == {"hello", "stopnow", "silence", "nonstop"}

\*   hello   : " hello\u00a0"
\*   stopnow : "Stop now "
\*   silence : no segment
\*   nonstop : "nonSTOP", "\r ok\f\n", " \t\x0b\x1c"
EngineResult(a) ==
    CASE a = "hello"   -> << <<32,104,101,108,108,111,160>> >>
      [] a = "stopnow" -> << <<83,116,111,112,32,110,111,119,32>> >>
      [] a = "silence" -> << >>
      [] a = "nonstop" -> << <<110,111,110,83,84,79,80>>, <<13,32,111,107,12,10>>,
                              <<32,9,11,28>> >>
      [] OTHER         -> << >>

\* the sentinel stop() puts on the queue; queue items are records so that the
\* worker's `audio_data == 'STOP'` compares like with like
STOP == [id |-> 0, audio |-> "STOP"]

\* value of the worker's audio_data while it holds no item
NoItem == [id |-> 0, audio |-> "none"]

\* queue.Queue.put / queue.Queue.get on the FIFO's contents
QueuePut_Front(q, item) == <<item>> \o q
QueuePut(q, item) == Append(q, item)
QueueGet_Lifo(q) == [item |-> q[Len(q)], rest |-> SubSeq(q, 1, Len(q) - 1)]
QueueGet(q) == [item |-> Head(q), rest |-> Tail(q)]

\* list.append
ListAppend_Overwrite(lst, x) == [lst EXCEPT ![Len(lst)] = x]
ListAppend(lst, x) == Append(lst, x)

\* `['']`, the value __init__ gives self.transcription
InitialTranscription_Empty == << >>
InitialTranscription == << EmptyStr >>

\* ---------------------------------------------------------------- state
VARIABLES
    data_queue,          \* self.data_queue: FIFO of [id, audio] records (STOP has id 0)
    unfinished_tasks,    \* queue.Queue's count of put() minus task_done()
    transcription,       \* self.transcription
    last_transcription,  \* self.last_transcription
    is_listening,        \* self.is_listening
    lock,                \* self.lock: "free" or the thread holding it
    pc,                  \* position of "worker", "main" and "caller"; "capture" tells
                         \* whether listen_in_background has registered the callback
    default_mic,         \* self.default_mic
    audio_data,          \* worker local: the item taken from the queue
    segments,            \* worker local: entries the engine has still to yield
    text,                \* worker local: segment.text.strip()
    glt_text,            \* get_last_transcription local `text`
    polled,              \* module-level variable last_transcription
    printed,             \* what the poll loop has printed ("You said: ...")
    nseg,                \* number of recorder_callback invocations so far
    nstops,              \* number of stop() calls begun by the API caller
    enqueued,            \* history: ids of everything put on the queue, in put order (0 = STOP)
    dequeued,            \* history: ids of the items the worker took from the queue (0 = STOP)
    engine_in,           \* history: the segments handed to model.transcribe
    after_stop,          \* history: engine calls begun after a stop() call completed
    entry_seg,           \* history: for every appended entry, its segment id
    unread,              \* history: last_transcription holds a published, not yet read text
    lost                 \* history: published non-empty texts overwritten before any read

vars == <<data_queue, unfinished_tasks, transcription, last_transcription,
          is_listening, lock, pc, default_mic, audio_data, segments, text,
          glt_text, polled, printed, nseg, nstops, enqueued, dequeued, engine_in,
          after_stop, entry_seg, unread, lost>>

hist == <<enqueued, dequeued, engine_in, after_stop, entry_seg, unread, lost>>
workerHist == <<dequeued, engine_in, after_stop, entry_seg, unread, lost>>
workerLocals == <<audio_data, segments, text>>
mainLocals == <<glt_text, polled, printed, default_mic>>

\* STT.__init__ and listen() have returned: the worker thread is started,
\* capture is registered and the poll loop is about to begin
Init ==
    /\ data_queue = << >>
    /\ unfinished_tasks = 0
    /\ transcription = InitialTranscription
    /\ last_transcription = EmptyStr
    /\ is_listening = TRUE
    /\ lock = "free"
    /\ pc = [worker |-> "while", main |-> "while", caller |-> "idle",
             capture |-> "on"]
    /\ default_mic = 0
    /\ audio_data = NoItem
    /\ segments = << >>
    /\ text = EmptyStr
    /\ glt_text = EmptyStr
    /\ polled = EmptyStr
    /\ printed = << >>
    /\ nseg = 0
    /\ nstops = 0
    /\ enqueued = << >>
    /\ dequeued = << >>
    /\ engine_in = << >>
    /\ after_stop = 0
    /\ entry_seg = << >>
    /\ unread = FALSE
    /\ lost = << >>

\* ---------------------------------------------------------------- producer
recorder_callback_Inline(a) ==
    /\ nseg' = nseg + 1
    /\ data_queue' = QueuePut(data_queue, [id |-> nseg + 1, audio |-> a])
    /\ unfinished_tasks' = unfinished_tasks + 1
    /\ enqueued' = Append(enqueued, nseg + 1)
    /\ transcription' = transcription \o EngineResult(a)
    /\ UNCHANGED <<last_transcription, is_listening, lock, pc,
                   workerLocals, mainLocals, nstops, workerHist>>

\* recorder_callback: wrap the audio and put it on the queue
recorder_callback(a) ==
    /\ nseg' = nseg + 1
    /\ data_queue' = QueuePut(data_queue, [id |-> nseg + 1, audio |-> a])
    /\ unfinished_tasks' = unfinished_tasks + 1
    /\ enqueued' = Append(enqueued, nseg + 1)
    /\ UNCHANGED <<transcription, last_transcription, is_listening, lock, pc,
                   workerLocals, mainLocals, nstops, workerHist>>

\* ---------------------------------------------------------------- worker
IsSentinel_Never(item) == FALSE
IsSentinel(item) == item = STOP

Terminated == pc.worker \in {"exit_sentinel", "exit_flag", "crashed"}

\* the worker's loop condition, `self.is_listening`
LoopCondition_True(flag) == TRUE
LoopCondition(flag) == flag

WorkerWhile_Restart ==
    /\ pc.worker \in {"while", "exit_sentinel"}
    /\ pc' = [pc EXCEPT !.worker = IF pc.worker = "exit_sentinel"
                                      \/ LoopCondition(is_listening)
                                   THEN "get" ELSE "exit_flag"]
    /\ UNCHANGED <<data_queue, unfinished_tasks, transcription, last_transcription,
                   is_listening, lock, workerLocals, mainLocals, nseg, nstops, hist>>

\* transcribe: `while self.is_listening:`
WorkerWhile ==
    /\ pc.worker = "while"
    /\ pc' = [pc EXCEPT !.worker = IF LoopCondition(is_listening)
                                   THEN "get" ELSE "exit_flag"]
    /\ UNCHANGED <<data_queue, unfinished_tasks, transcription, last_transcription,
                   is_listening, lock, workerLocals, mainLocals, nseg, nstops, hist>>

\* transcribe: `audio_data = self.data_queue.get()` (blocks while the queue is
\* empty) and `if audio_data == 'STOP': break`
WorkerGet ==
    /\ pc.worker = "get"
    /\ data_queue # << >>
    /\ data_queue' = QueueGet(data_queue).rest
    /\ audio_data' = QueueGet(data_queue).item
    /\ dequeued' = Append(dequeued, audio_data'.id)
    /\ pc' = [pc EXCEPT !.worker = IF IsSentinel(audio_data')
                                   THEN "exit_sentinel" ELSE "engine"]
    /\ UNCHANGED <<unfinished_tasks, transcription, last_transcription, is_listening,
                   lock, segments, text, mainLocals, nseg, nstops,
                   enqueued, engine_in, after_stop, entry_seg, unread, lost>>

\* a stop() call has run to its end: flag cleared and sentinel on the queue
StopCompleted ==
    /\ ~is_listening
    /\ \E i \in 1..Len(enqueued) : enqueued[i] = 0

\* transcribe: `segments, info = self.model.transcribe(audio_data, ...)`
WorkerEngine ==
    /\ pc.worker = "engine"
    /\ segments' = EngineResult(audio_data.audio)
    /\ engine_in' = Append(engine_in, audio_data)
    /\ after_stop' = IF StopCompleted THEN after_stop + 1 ELSE after_stop
    /\ pc' = [pc EXCEPT !.worker = "for"]
    /\ UNCHANGED <<data_queue, unfinished_tasks, transcription, last_transcription,
                   is_listening, lock, audio_data, text, mainLocals, nseg, nstops,
                   enqueued, dequeued, entry_seg, unread, lost>>

WorkerEngineRaises_StopsListening ==
    /\ pc.worker = "engine"
    /\ engine_in' = Append(engine_in, audio_data)
    /\ after_stop' = IF StopCompleted THEN after_stop + 1 ELSE after_stop
    /\ is_listening' = FALSE
    /\ pc' = [pc EXCEPT !.worker = "crashed"]
    /\ UNCHANGED <<data_queue, unfinished_tasks, transcription, last_transcription,
                   lock, workerLocals, mainLocals, nseg, nstops,
                   enqueued, dequeued, entry_seg, unread, lost>>

\* transcribe: the engine call raises; nothing in the loop catches it, so the
\* exception ends the thread
WorkerEngineRaises ==
    /\ pc.worker = "engine"
    /\ engine_in' = Append(engine_in, audio_data)
    /\ after_stop' = IF StopCompleted THEN after_stop + 1 ELSE after_stop
    /\ pc' = [pc EXCEPT !.worker = "crashed"]
    /\ UNCHANGED <<data_queue, unfinished_tasks, transcription, last_transcription,
                   is_listening, lock, workerLocals, mainLocals, nseg, nstops,
                   enqueued, dequeued, entry_seg, unread, lost>>

\* transcribe: `for segment in segments:` and `text = segment.text.strip()`
WorkerFor ==
    /\ pc.worker = "for"
    /\ IF segments = << >>
       THEN /\ pc' = [pc EXCEPT !.worker = "task_done"]
            /\ UNCHANGED <<segments, text>>
       ELSE /\ text' = Strip(Head(segments))
            /\ segments' = Tail(segments)
            /\ pc' = [pc EXCEPT !.worker = "acquire"]
    /\ UNCHANGED <<data_queue, unfinished_tasks, transcription, last_transcription,
                   is_listening, lock, audio_data, mainLocals, nseg, nstops, hist>>

\* transcribe: the engine's result is consumed lazily, so the iteration of
\* line 54 can raise as well; the exception ends the thread with the entries
\* published so far left in place
WorkerForRaises ==
    /\ pc.worker = "for"
    /\ pc' = [pc EXCEPT !.worker = "crashed"]
    /\ UNCHANGED <<data_queue, unfinished_tasks, transcription, last_transcription,
                   is_listening, lock, workerLocals, mainLocals, nseg, nstops, hist>>

WorkerAcquire_NoLock ==
    /\ pc.worker = "acquire"
    /\ pc' = [pc EXCEPT !.worker = "append"]
    /\ UNCHANGED <<data_queue, unfinished_tasks, transcription, last_transcription,
                   is_listening, lock, workerLocals, mainLocals, nseg, nstops, hist>>

\* transcribe: `with self.lock:` (entry)
WorkerAcquire ==
    /\ pc.worker = "acquire"
    /\ lock = "free"
    /\ lock' = "worker"
    /\ pc' = [pc EXCEPT !.worker = "append"]
    /\ UNCHANGED <<data_queue, unfinished_tasks, transcription, last_transcription,
                   is_listening, workerLocals, mainLocals, nseg, nstops, hist>>

\* transcribe: `self.transcription.append(text)`
WorkerAppend ==
    /\ pc.worker = "append"
    /\ transcription' = ListAppend(transcription, text)
    /\ entry_seg' = Append(entry_seg, audio_data.id)
    /\ pc' = [pc EXCEPT !.worker = "set_last"]
    /\ UNCHANGED <<data_queue, unfinished_tasks, last_transcription, is_listening,
                   lock, workerLocals, mainLocals, nseg, nstops,
                   enqueued, dequeued, engine_in, after_stop, unread, lost>>

WorkerSetLast_KeepLock ==
    /\ pc.worker = "set_last"
    /\ last_transcription' = text
    /\ unread' = TRUE
    /\ lost' = IF unread /\ last_transcription # EmptyStr
               THEN Append(lost, last_transcription) ELSE lost
    /\ pc' = [pc EXCEPT !.worker = "for"]
    /\ UNCHANGED <<data_queue, unfinished_tasks, transcription, is_listening, lock,
                   workerLocals, mainLocals, nseg, nstops,
                   enqueued, dequeued, engine_in, after_stop, entry_seg>>

\* transcribe: `self.last_transcription = text`, then the with-block releases
\* the lock
WorkerSetLast ==
    /\ pc.worker = "set_last"
    /\ last_transcription' = text
    /\ lock' = IF lock = "worker" THEN "free" ELSE lock
    /\ unread' = TRUE
    /\ lost' = IF unread /\ last_transcription # EmptyStr
               THEN Append(lost, last_transcription) ELSE lost
    /\ pc' = [pc EXCEPT !.worker = "for"]
    /\ UNCHANGED <<data_queue, unfinished_tasks, transcription, is_listening,
                   workerLocals, mainLocals, nseg, nstops,
                   enqueued, dequeued, engine_in, after_stop, entry_seg>>

\* transcribe: `self.data_queue.task_done()` and `time.sleep(0.25)`; the locals
\* are dead until the next get() assigns them
WorkerTaskDone ==
    /\ pc.worker = "task_done"
    /\ unfinished_tasks' = unfinished_tasks - 1
    /\ audio_data' = NoItem
    /\ text' = EmptyStr
    /\ pc' = [pc EXCEPT !.worker = "while"]
    /\ UNCHANGED <<data_queue, transcription, last_transcription, is_listening,
                   lock, segments, mainLocals, nseg, nstops, hist>>

transcribe ==
    \/ WorkerWhile
    \/ WorkerGet
    \/ WorkerEngine
    \/ WorkerEngineRaises
    \/ WorkerFor
    \/ WorkerForRaises
    \/ WorkerAcquire
    \/ WorkerAppend
    \/ WorkerSetLast
    \/ WorkerTaskDone

\* ---------------------------------------------------------------- stop()
StopCallers == {"main", "caller"}

StopLog_StopsCapture(t) ==
    /\ pc[t] = "stop_log"
    /\ pc' = [pc EXCEPT ![t] = "stop_flag", !.capture = "off"]
    /\ UNCHANGED <<data_queue, unfinished_tasks, transcription, last_transcription,
                   is_listening, lock, workerLocals, mainLocals, nseg, nstops, hist>>

\* stop: the two logging.info calls; the second formats self.transcription
StopLog(t) ==
    /\ pc[t] = "stop_log"
    /\ pc' = [pc EXCEPT ![t] = "stop_flag"]
    /\ UNCHANGED <<data_queue, unfinished_tasks, transcription, last_transcription,
                   is_listening, lock, workerLocals, mainLocals, nseg, nstops, hist>>

StopFlag_Toggle(t) ==
    /\ pc[t] = "stop_flag"
    /\ is_listening' = ~is_listening
    /\ pc' = [pc EXCEPT ![t] = "stop_put"]
    /\ UNCHANGED <<data_queue, unfinished_tasks, transcription, last_transcription,
                   lock, workerLocals, mainLocals, nseg, nstops, hist>>

\* stop: `self.is_listening = False`
StopFlag(t) ==
    /\ pc[t] = "stop_flag"
    /\ is_listening' = FALSE
    /\ pc' = [pc EXCEPT ![t] = "stop_put"]
    /\ UNCHANGED <<data_queue, unfinished_tasks, transcription, last_transcription,
                   lock, workerLocals, mainLocals, nseg, nstops, hist>>

StopPut_FlagOnly(t) ==
    /\ pc[t] = "stop_put"
    /\ pc' = [pc EXCEPT ![t] = IF t = "main" THEN "while" ELSE "idle"]
    /\ UNCHANGED <<data_queue, unfinished_tasks, transcription, last_transcription,
                   is_listening, lock, workerLocals, mainLocals, nseg, nstops, hist>>

\* stop: `self.data_queue.put("STOP")`; the poll loop then sleeps and returns
\* to its loop condition, an API caller is done
StopPut(t) ==
    /\ pc[t] = "stop_put"
    /\ data_queue' = QueuePut(data_queue, STOP)
    /\ unfinished_tasks' = unfinished_tasks + 1
    /\ enqueued' = Append(enqueued, STOP.id)
    /\ pc' = [pc EXCEPT ![t] = IF t = "main" THEN "while" ELSE "idle"]
    /\ UNCHANGED <<transcription, last_transcription, is_listening, lock,
                   workerLocals, mainLocals, nseg, nstops, workerHist>>

stop(t) == StopLog(t) \/ StopFlag(t) \/ StopPut(t)

\* a user of the class calls stt.stop()
CallerStop ==
    /\ pc.caller = "idle"
    /\ nstops < MaxStops
    /\ nstops' = nstops + 1
    /\ pc' = [pc EXCEPT !.caller = "stop_log"]
    /\ UNCHANGED <<data_queue, unfinished_tasks, transcription, last_transcription,
                   is_listening, lock, workerLocals, mainLocals, nseg, hist>>

\* ---------------------------------------------------------------- poll loop
PollWhile_Forever ==
    /\ pc.main = "while"
    /\ pc' = [pc EXCEPT !.main = "glt_acquire"]
    /\ UNCHANGED <<data_queue, unfinished_tasks, transcription, last_transcription,
                   is_listening, lock, workerLocals, mainLocals, nseg, nstops, hist>>

\* `while stt.is_listening:`
PollWhile ==
    /\ pc.main = "while"
    /\ pc' = [pc EXCEPT !.main = IF is_listening THEN "glt_acquire" ELSE "exited"]
    /\ UNCHANGED <<data_queue, unfinished_tasks, transcription, last_transcription,
                   is_listening, lock, workerLocals, mainLocals, nseg, nstops, hist>>

\* get_last_transcription: `with self.lock:` (entry)
GltAcquire ==
    /\ pc.main = "glt_acquire"
    /\ lock = "free"
    /\ lock' = "main"
    /\ pc' = [pc EXCEPT !.main = "glt_read"]
    /\ UNCHANGED <<data_queue, unfinished_tasks, transcription, last_transcription,
                   is_listening, workerLocals, mainLocals, nseg, nstops, hist>>

\* what get_last_transcription reads from the slot, and what it leaves there
SlotRead_AfterClear(slot) == EmptyStr
SlotRead(slot) == slot
SlotAfterTake_Keep(slot) == slot
SlotAfterTake(slot) == EmptyStr

\* get_last_transcription: `text = self.last_transcription`
GltRead ==
    /\ pc.main = "glt_read"
    /\ glt_text' = SlotRead(last_transcription)
    /\ unread' = FALSE
    /\ pc' = [pc EXCEPT !.main = "glt_clear"]
    /\ UNCHANGED <<data_queue, unfinished_tasks, transcription, last_transcription,
                   is_listening, lock, workerLocals, polled, printed, default_mic,
                   nseg, nstops,
                   enqueued, dequeued, engine_in, after_stop, entry_seg, lost>>

\* get_last_transcription: `self.last_transcription = ""` and the release of
\* the lock at the end of the with-block
GltClear ==
    /\ pc.main = "glt_clear"
    /\ last_transcription' = SlotAfterTake(last_transcription)
    /\ lock' = IF lock = "main" THEN "free" ELSE lock
    /\ lost' = IF unread /\ last_transcription # EmptyStr
               THEN Append(lost, last_transcription) ELSE lost
    /\ unread' = FALSE
    /\ pc' = [pc EXCEPT !.main = "glt_return"]
    /\ UNCHANGED <<data_queue, unfinished_tasks, transcription, is_listening,
                   workerLocals, mainLocals, nseg, nstops,
                   enqueued, dequeued, engine_in, after_stop, entry_seg>>

get_last_transcription == GltAcquire \/ GltRead \/ GltClear

\* get_last_transcription: `return text`, and the poll loop's
\* `last_transcription = stt.get_last_transcription()`
PollStore ==
    /\ pc.main = "glt_return"
    /\ polled' = glt_text
    /\ pc' = [pc EXCEPT !.main = "if_len"]
    /\ UNCHANGED <<data_queue, unfinished_tasks, transcription, last_transcription,
                   is_listening, lock, workerLocals, glt_text, printed, default_mic,
                   nseg, nstops, hist>>

\* `if len(last_transcription) > 0:` print, and
\* `if "stop" in last_transcription.lower(): stt.stop()`; otherwise sleep
PollTest ==
    /\ pc.main = "if_len"
    /\ IF Len(polled) > 0
       THEN /\ printed' = Append(printed, polled)
            /\ pc' = [pc EXCEPT !.main = IF HasStopKeyword(polled)
                                         THEN "stop_log" ELSE "while"]
       ELSE /\ printed' = printed
            /\ pc' = [pc EXCEPT !.main = "while"]
    /\ UNCHANGED <<data_queue, unfinished_tasks, transcription, last_transcription,
                   is_listening, lock, workerLocals, glt_text, polled, default_mic,
                   nseg, nstops, hist>>

\* `except KeyboardInterrupt: pass`; a with-block being left releases its lock
KeyboardInterrupt ==
    /\ pc.main # "exited"
    /\ pc' = [pc EXCEPT !.main = "exited"]
    /\ lock' = IF lock = "main" THEN "free" ELSE lock
    /\ UNCHANGED <<data_queue, unfinished_tasks, transcription, last_transcription,
                   is_listening, workerLocals, mainLocals, nseg, nstops, hist>>

\* ---------------------------------------------------------------- system
Next ==
    \/ \E a \in Audios : nseg < MaxSegs /\ recorder_callback(a)
    \/ transcribe
    \/ \E t \in StopCallers : stop(t)
    \/ CallerStop
    \/ PollWhile
    \/ get_last_transcription
    \/ PollStore
    \/ PollTest
    \/ KeyboardInterrupt

Spec == Init /\ [][Next]_vars

\* ---------------------------------------------------------------- types
TypeOK ==
    /\ is_listening \in BOOLEAN
    /\ lock \in {"free", "worker", "main"}
    /\ nseg \in Nat
    /\ nstops \in 0..MaxStops
    /\ unfinished_tasks \in Nat

\* The worker is a daemon thread (setDaemon(True)): once the poll loop has
\* ended the script is over and the interpreter tears the worker down wherever
\* it is, so the worker is sure to run on only while the poll loop lives.
ProcessAlive == pc.main # "exited"

\* Threads are scheduled fairly: the worker thread keeps running while it can
\* and the process lives, a caller inside stop() or get_last_transcription()
\* or the poll loop returns from it.  Capture events, new stop() calls and
\* KeyboardInterrupt are up to the environment.
FairNext ==
    \/ \E a \in Audios : nseg < MaxSegsFair /\ recorder_callback(a)
    \/ transcribe
    \/ \E t \in StopCallers : stop(t)
    \/ CallerStop
    \/ PollWhile
    \/ get_last_transcription
    \/ PollStore
    \/ PollTest
    \/ KeyboardInterrupt

FairSpec ==
    /\ Init
    /\ [][FairNext]_vars
    /\ WF_vars(ProcessAlive /\ transcribe)
    /\ WF_vars(get_last_transcription)
    /\ WF_vars(PollWhile \/ PollStore \/ PollTest)
    /\ \A t \in StopCallers : WF_vars(stop(t))

\* ---------------------------------------------------------------- history
IsPrefix(s, t) == Len(s) <= Len(t) /\ SubSeq(t, 1, Len(s)) = s

QueueIds == [i \in 1..Len(data_queue) |-> data_queue[i].id]
EngineIds == [i \in 1..Len(engine_in) |-> engine_in[i].id]

SentinelEnqueued == \E i \in 1..Len(enqueued) : enqueued[i] = 0
SentinelDequeued == \E i \in 1..Len(dequeued) : dequeued[i] = 0

\* position of the first sentinel in the put order
FirstStop == CHOOSE i \in 1..Len(enqueued) :
                 enqueued[i] = 0 /\ \A j \in 1..(i - 1) : enqueued[j] # 0

\* the segments put on the queue ahead of the first sentinel
AheadOfSentinel == SubSeq(enqueued, 1, FirstStop - 1)

\* ---------------------------------------------------------------- C1
\* C1 as stated: when the sentinel was enqueued and the worker has left its
\* loop, it has transcribed exactly the segments enqueued ahead of the sentinel.
C1_DrainsBeforeTerminating ==
    (SentinelEnqueued /\ pc.worker \in {"exit_sentinel", "exit_flag"})
        => EngineIds = AheadOfSentinel

\* C1 (amended): the worker hands segments to the engine in enqueue order and
\* skips none ahead of one it transcribes (segment ids are 1, 2, ... in
\* enqueue order); if it terminates by dequeuing the sentinel it has
\* transcribed exactly the segments enqueued ahead of that sentinel.
C1_InOrderAndCompleteOnSentinel ==
    /\ \A i \in 1..Len(engine_in) : engine_in[i].id = i
    /\ pc.worker = "exit_sentinel" => EngineIds = AheadOfSentinel

C1_Witness ==
    /\ pc.worker = "exit_sentinel"
    /\ EngineIds = <<1, 2>>
    /\ AheadOfSentinel = <<1, 2>>

\* ---------------------------------------------------------------- C2
\* C2: no segment enqueued after the first sentinel is ever handed to the
\* engine, and once the worker has dequeued the sentinel it dequeues nothing
\* more, calls the engine no more and appends nothing more.
C2_NothingAfterSentinel ==
    /\ [](SentinelEnqueued =>
             \A i \in 1..Len(engine_in) :
                 \E j \in 1..(FirstStop - 1) : enqueued[j] = engine_in[i].id)
    /\ [][SentinelDequeued =>
             /\ dequeued' = dequeued
             /\ engine_in' = engine_in
             /\ transcription' = transcription
             /\ data_queue' = data_queue \/ Len(data_queue') > Len(data_queue)]_vars

\* the worker has left on the sentinel while a later segment sits in the queue
C2_Witness ==
    /\ pc.worker = "exit_sentinel"
    /\ \E i \in 1..Len(data_queue) : data_queue[i].id # 0
    /\ Len(engine_in) >= 1

\* ---------------------------------------------------------------- C3
\* the transcript entries each audio is expected to give: the engine's texts
\* without their surrounding whitespace, written out
ExpectedEntries(a) ==
    CASE a = "hello"   -> << <<104,101,108,108,111>> >>                \* "hello"
      [] a = "stopnow" -> << <<83,116,111,112,32,110,111,119>> >>     \* "Stop now"
      [] a = "silence" -> << >>
      \* "nonSTOP", "ok", ""
      [] a = "nonstop" -> << <<110,111,110,83,84,79,80>>, <<111,107>>, << >> >>
      [] OTHER         -> << >>

RECURSIVE EntriesOf(_)
EntriesOf(items) ==
    IF items = << >> THEN << >>
    ELSE ExpectedEntries(Head(items).audio) \o EntriesOf(Tail(items))

LeftLoop == pc.worker \in {"exit_sentinel", "exit_flag"}

\* C3 as stated: once the sentinel is enqueued the worker leaves only by
\* dequeuing it, so a worker that has left its loop has dequeued the sentinel.
C3_LeavesOnlyOnSentinel ==
    (SentinelEnqueued /\ LeftLoop) => SentinelDequeued

\* C3 (amended): once stop() has enqueued the sentinel the worker eventually
\* terminates, unless the poll loop ends first and the process with it; until
\* it has terminated it can always take its next step, except while the poll
\* loop holds the mutex; a sentinel it dequeues is the last item it dequeues;
\* it leaves its loop only with every segment it started finished; and at its
\* loop condition with is_listening false it leaves without dequeuing.
C3_TerminatesBySentinelOrFlag ==
    /\ SentinelEnqueued ~> (Terminated \/ ~ProcessAlive)
    /\ []((SentinelEnqueued /\ ~Terminated /\ lock # "main") => ENABLED transcribe)
    /\ [](SentinelDequeued =>
            /\ dequeued[Len(dequeued)] = 0
            /\ \A i \in 1..(Len(dequeued) - 1) : dequeued[i] # 0)
    /\ [](LeftLoop => Tail(transcription) = EntriesOf(engine_in))
    /\ [][(pc.worker = "while" /\ ~is_listening)
             => (pc'.worker \in {"while", "exit_flag"} /\ dequeued' = dequeued)]_vars

\* stop() ran while segment 1 was in the engine: the worker finished it and
\* left at the loop condition, the sentinel still in the queue
C3_Witness ==
    /\ pc.worker = "exit_flag"
    /\ dequeued = <<1>>
    /\ Len(entry_seg) >= 1
    /\ \E i \in 1..Len(data_queue) : data_queue[i] = STOP

\* ---------------------------------------------------------------- C4
\* case-insensitive occurrence of "stop", spelled out character by character
MentionsStop(s) ==
    \E i \in 1..(Len(s) - 3) :
        /\ s[i] \in {115, 83}          \* s S
        /\ s[i + 1] \in {116, 84}      \* t T
        /\ s[i + 2] \in {111, 79}      \* o O
        /\ s[i + 3] \in {112, 80}      \* p P

Polling == is_listening /\ pc.main # "exited"

\* C4 as stated: a keyword text published while is_listening is true reaches
\* the poll loop, so while the loop is still polling no keyword text has been
\* overwritten unread.
C4_KeywordAlwaysObserved ==
    Polling => \A i \in 1..Len(lost) : ~MentionsStop(lost[i])

\* C4 (amended): when get_last_transcription() has returned a text to the poll
\* loop, the loop's next step invokes stop() exactly if the text contains
\* "stop" in any letter case, and that stop() call clears is_listening unless
\* a KeyboardInterrupt ends the loop first.
C4_ObservedKeywordStops ==
    /\ [][(pc.main = "if_len" /\ pc'.main \notin {"if_len", "exited"})
            => (pc'.main = "stop_log" <=> MentionsStop(polled))]_vars
    /\ (pc.main = "if_len" /\ MentionsStop(polled))
            ~> (~is_listening \/ pc.main = "exited")

\* the poll loop is inside stop() because of a text whose keyword is not in
\* lower case
C4_Witness ==
    /\ pc.main = "stop_put"
    /\ ~is_listening
    /\ MentionsStop(polled)
    /\ ~Contains(polled, StopKeyword)

\* ---------------------------------------------------------------- C5
NonEmpty(s) == s # EmptyStr

\* the texts the worker has written to last_transcription so far
Published ==
    IF pc.worker = "set_last"
    THEN SubSeq(transcription, 2, Len(transcription) - 1)
    ELSE Tail(transcription)

\* the non-empty texts get_last_transcription has read so far
Returned ==
    printed
      \o (IF pc.main = "if_len" /\ polled # EmptyStr THEN <<polled>> ELSE << >>)
      \o (IF pc.main \in {"glt_clear", "glt_return"} /\ glt_text # EmptyStr
          THEN <<glt_text>> ELSE << >>)

InSlot == IF unread /\ last_transcription # EmptyStr
          THEN <<last_transcription>> ELSE << >>

RECURSIVE IsMerge(_, _, _)
IsMerge(p, a, b) ==
    IF p = << >> THEN a = << >> /\ b = << >>
    ELSE \/ a # << >> /\ Head(a) = Head(p) /\ IsMerge(Tail(p), Tail(a), b)
         \/ b # << >> /\ Head(b) = Head(p) /\ IsMerge(Tail(p), a, Tail(b))

\* C5 as stated: while the poll loop keeps polling, no published text has been
\* overwritten before a get_last_transcription() read it.
C5_NoTextLost == Polling => lost = << >>

\* C5 (amended): while the poll loop has not ended, the non-empty published
\* texts are, in publish order, exactly the texts returned so far interleaved
\* with the texts a later publish overwrote unread, followed by the text still
\* waiting in last_transcription: a text is returned only if it is read before
\* the next publish, and the latest publish is never dropped.
C5_ReturnedOrOverwritten ==
    pc.main # "exited" =>
        IsMerge(SelectSeq(Published, NonEmpty), Returned, lost \o InSlot)

\* one text was overwritten unread, a later one was returned
C5_Witness ==
    /\ pc.main = "while"
    /\ Len(lost) = 1
    /\ Len(printed) = 1
    /\ lost[1] # printed[1]

\* ---------------------------------------------------------------- C6
\* C6: a get_last_transcription() that reads the slot with no publish since
\* the previous read gets the empty string, and the non-empty texts returned
\* never outnumber the non-empty texts published.
C6_SingleDelivery ==
    /\ [][(pc.main = "glt_read" /\ pc'.main = "glt_clear" /\ ~unread)
            => glt_text' = EmptyStr]_vars
    /\ [](pc.main # "exited" =>
            Len(Returned) <= Len(SelectSeq(Published, NonEmpty)))

\* the only text ever published was returned by one call, and the next call
\* has returned the empty string
C6_Witness ==
    /\ pc.main = "if_len"
    /\ polled = EmptyStr
    /\ Len(transcription) = 2
    /\ printed = <<transcription[2]>>
    /\ pc.worker = "get"

\* The pipeline with nobody but the poll loop calling stop() and no
\* KeyboardInterrupt, under the same fair scheduling.  The poll loop sleeps a
\* second between two short critical sections, so a worker waiting for the
\* lock gets it: acquisition is strongly fair.
\* the audios captured in these runs: one entry, no entry, and several entries
\* with the keyword among them
DrainAudios == {"hello", "silence", "nonstop"}

DrainNext ==
    \/ \E a \in DrainAudios : nseg < MaxSegsDrain /\ recorder_callback(a)
    \/ transcribe
    \/ stop("main")
    \/ PollWhile
    \/ get_last_transcription
    \/ PollStore
    \/ PollTest

DrainSpec ==
    /\ Init
    /\ [][DrainNext]_vars
    /\ WF_vars(ProcessAlive /\ transcribe)
    /\ SF_vars(ProcessAlive /\ WorkerAcquire)
    /\ WF_vars(get_last_transcription)
    /\ WF_vars(PollWhile \/ PollStore \/ PollTest)
    /\ WF_vars(stop("main"))

\* ---------------------------------------------------------------- C7
\* the worker is between the engine call and task_done() of a segment
InSegment == pc.worker \in {"for", "acquire", "append", "set_last"}

\* the segments whose for-loop has run to its end
FinishedSegs ==
    IF InSegment \/ pc.worker = "crashed"
    THEN SubSeq(engine_in, 1, Len(engine_in) - 1)
    ELSE engine_in

\* entries of the segment in progress that are already in the transcript; for
\* a segment whose engine call or iteration raised, the entries appended
\* before the exception
InFlightEntries ==
    IF InSegment
    THEN Len(ExpectedEntries(audio_data.audio)) - Len(segments)
           - (IF pc.worker \in {"acquire", "append"} THEN 1 ELSE 0)
    ELSE IF pc.worker = "crashed"
    THEN Cardinality({i \in 1..Len(entry_seg) : entry_seg[i] = audio_data.id})
    ELSE 0

\* C7 as stated: the transcript is as long as the number of entries the
\* engine has returned for the segments processed so far.
C7_LengthIsEntryCount ==
    Len(transcription) = Len(EntriesOf(FinishedSegs)) + InFlightEntries

\* C7 (amended): the transcript is the initial empty string followed by the
\* stripped texts of the entries returned so far, so its length is one more
\* than the number of those entries.
C7_InitialEntryThenEngineEntries ==
    /\ Len(transcription) = 1 + Len(EntriesOf(FinishedSegs)) + InFlightEntries
    /\ transcription =
          <<EmptyStr>> \o SubSeq(EntriesOf(engine_in), 1, Len(transcription) - 1)

\* segment A gave "hello", segment B gave "Stop now"
C7_Witness ==
    /\ transcription = << EmptyStr,
                          <<104,101,108,108,111>>,                \* "hello"
                          <<83,116,111,112,32,110,111,119>> >>    \* "Stop now"
    /\ pc.worker \notin {"append", "set_last"}
    /\ Len(engine_in) = 2

\* ---------------------------------------------------------------- C8
\* C8: every step leaves the previous transcript as a prefix of the next.
C8_AppendOnly == [][IsPrefix(transcription, transcription')]_vars

\* entries were appended and every kind of operation has run since
C8_Witness ==
    /\ Len(transcription) >= 4
    /\ ~is_listening
    /\ printed # << >>
    /\ Len(enqueued) > Len(dequeued)

\* ---------------------------------------------------------------- C9
StopIssued ==
    \/ ~is_listening
    \/ SentinelEnqueued
    \/ \E t \in StopCallers : pc[t] \in {"stop_log", "stop_flag", "stop_put"}

\* segment k went through the engine and its for-loop has ended
Transcribed(k) == \E i \in 1..Len(FinishedSegs) : FinishedSegs[i].id = k

\* C9: unless stop() is issued or the engine raises, every enqueued segment is
\* eventually transcribed; no segment is handed to the engine twice; entries
\* enter the transcript in the enqueue order of their segments; and once the
\* worker waits on the empty queue the transcript holds the entries of all
\* enqueued segments, in order.
C9_AllTranscribedInOrder ==
    /\ \A k \in 1..MaxSegsDrain :
          (nseg >= k) ~> (Transcribed(k) \/ StopIssued \/ pc.worker = "crashed")
    /\ [](\A i, j \in 1..Len(engine_in) : engine_in[i].id = engine_in[j].id => i = j)
    /\ [](\A i, j \in 1..Len(entry_seg) : i < j => entry_seg[i] <= entry_seg[j])
    /\ []((~StopIssued /\ pc.worker = "get" /\ data_queue = << >>)
            => /\ EngineIds = [k \in 1..nseg |-> k]
               /\ Tail(transcription) = EntriesOf(engine_in))

\* three segments were enqueued and all three are transcribed, no stop()
C9_Witness ==
    /\ ~StopIssued
    /\ nseg = 3
    /\ pc.worker = "get"
    /\ data_queue = << >>
    /\ EngineIds = <<1, 2, 3>>
    /\ Len(transcription) = 4

\* ---------------------------------------------------------------- C10
NumSentinels(ids) == Cardinality({i \in 1..Len(ids) : ids[i] = 0})

\* C10 as stated: after a stop() call the worker eventually reaches its
\* terminated state.
C10_WorkerReachesTerminated == (nstops >= 1 \/ SentinelEnqueued) ~> Terminated

\* C10 (amended): after a stop() call the worker eventually terminates, unless
\* the poll loop ends first and the process with it; a terminated worker stays
\* as it is, dequeues nothing, calls the engine no more and publishes nothing;
\* when two stop() calls have put their sentinel, a sentinel is left in the
\* queue.
C10_RepeatedStop ==
    /\ (nstops >= 1 \/ SentinelEnqueued) ~> (Terminated \/ ~ProcessAlive)
    /\ [][Terminated =>
            /\ pc'.worker = pc.worker
            /\ dequeued' = dequeued
            /\ engine_in' = engine_in
            /\ transcription' = transcription
            /\ last_transcription' \in {last_transcription, EmptyStr}]_vars
    /\ [](NumSentinels(enqueued) >= 2 =>
            /\ NumSentinels(dequeued) <= 1
            /\ \E i \in 1..Len(data_queue) : data_queue[i] = STOP)

\* stop() ran twice (poll loop and API caller); the worker left on the first
\* sentinel and the second one is still queued
C10_Witness ==
    /\ NumSentinels(enqueued) = 2
    /\ pc.worker = "exit_sentinel"
    /\ data_queue = <<STOP>>
    /\ pc.main = "exited"

\* ---------------------------------------------------------------- C11
\* C11: a thread whose next statement reads or writes self.transcription or
\* self.last_transcription holds self.lock: the worker at its append and its
\* assignment, get_last_transcription at its read and its clear, and stop()
\* at the logging call that formats self.transcription.
C11_AllAccessUnderLock ==
    /\ pc.worker \in {"append", "set_last"} => lock = "worker"
    /\ pc.main \in {"glt_read", "glt_clear"} => lock = "main"
    /\ \A t \in StopCallers : pc[t] = "stop_log" => lock = t

\* ---------------------------------------------------------------- C12
LastEntry == transcription[Len(transcription)]

\* C12: whenever no thread holds the lock, last_transcription is empty or is
\* the last element of the transcript; and a non-empty text read by
\* get_last_transcription() is the last element of the transcript at that
\* moment.
C12_SlotMatchesLastEntry ==
    /\ [](lock = "free" => last_transcription \in {EmptyStr, LastEntry})
    /\ [][(pc.main = "glt_read" /\ pc'.main = "glt_clear" /\ glt_text' # EmptyStr)
            => glt_text' = LastEntry]_vars

\* get_last_transcription() has returned "ok", the second of three entries of
\* one segment, read between two publishes of the worker
C12_Witness ==
    /\ pc.main = "if_len"
    /\ polled = <<111,107>>        \* "ok"
    /\ lock = "free"
    /\ last_transcription = EmptyStr
    /\ Len(transcription) = 3
    /\ pc.worker = "acquire"

\* ---------------------------------------------------------------- start-up
\* None, the value of default_device_index when no device was found
NoDevice == -1

\* outcome of p.get_default_input_device_info(): the index of the default
\* input device, or DefaultRaises when it raises IOError/OSError
DefaultRaises == -1
DefaultInfos == {DefaultRaises, 0, 1}

\* the maxInputChannels of the devices p.get_device_info_by_index enumerates
ChannelLists == UNION {[1..n -> {0, 2}] : n \in 0..MaxDevices}

\* setup_mic up to its final test: the default input device, else the first
\* enumerated device (indices from 0) with maxInputChannels > 0, else None
SetupMic(default, channels) ==
    IF default # DefaultRaises THEN default
    ELSE IF \E i \in 1..Len(channels) : channels[i] > 0
         THEN (CHOOSE i \in 1..Len(channels) :
                   channels[i] > 0 /\ \A j \in 1..(i - 1) : channels[j] <= 0) - 1
         ELSE NoDevice

\* setup_mic: `if default_device_index is None: raise Exception(...)`
NoDeviceRaises_Never(index) == FALSE
NoDeviceRaises(index) == index = NoDevice

startupFrame == <<data_queue, unfinished_tasks, transcription, last_transcription,
                  is_listening, lock, workerLocals, glt_text, polled, printed,
                  nseg, nstops, hist>>

\* __init__ up to `self.default_mic = self.setup_mic()`; an exception leaves
\* __init__ and, not being a KeyboardInterrupt, ends the program
CtorSetupMic ==
    /\ pc.main = "setup_mic"
    /\ \E default \in DefaultInfos, channels \in ChannelLists :
          /\ default_mic' = SetupMic(default, channels)
          /\ pc' = [pc EXCEPT !.main = IF NoDeviceRaises(default_mic')
                                       THEN "failed_mic" ELSE "model"]
    /\ UNCHANGED startupFrame

\* __init__: `self.model = WhisperModel(...)` returns
CtorModel ==
    /\ pc.main = "model"
    /\ pc' = [pc EXCEPT !.main = "thread_start"]
    /\ UNCHANGED <<startupFrame, default_mic>>

\* __init__: WhisperModel(...) raises
CtorModelRaises ==
    /\ pc.main = "model"
    /\ pc' = [pc EXCEPT !.main = "failed_model"]
    /\ UNCHANGED <<startupFrame, default_mic>>

\* __init__: the lock is created, the worker thread is started, __init__ returns
CtorThreadStart ==
    /\ pc.main = "thread_start"
    /\ pc' = [pc EXCEPT !.main = "listen", !.worker = "while"]
    /\ UNCHANGED <<startupFrame, default_mic>>

\* listen: ambient-noise calibration, then listen_in_background registers
\* recorder_callback
Listen ==
    /\ pc.main = "listen"
    /\ pc' = [pc EXCEPT !.main = "while", !.capture = "on"]
    /\ UNCHANGED <<startupFrame, default_mic>>

\* the state in which `stt = STT()` begins: the fields of lines 19-23 are set,
\* no thread runs
StartInit ==
    /\ data_queue = << >>
    /\ unfinished_tasks = 0
    /\ transcription = InitialTranscription
    /\ last_transcription = EmptyStr
    /\ is_listening = TRUE
    /\ lock = "free"
    /\ pc = [worker |-> "unstarted", main |-> "setup_mic", caller |-> "idle",
             capture |-> "off"]
    /\ default_mic = NoDevice
    /\ audio_data = NoItem
    /\ segments = << >>
    /\ text = EmptyStr
    /\ glt_text = EmptyStr
    /\ polled = EmptyStr
    /\ printed = << >>
    /\ nseg = 0
    /\ nstops = 0
    /\ enqueued = << >>
    /\ dequeued = << >>
    /\ engine_in = << >>
    /\ after_stop = 0
    /\ entry_seg = << >>
    /\ unread = FALSE
    /\ lost = << >>

StartupNext ==
    \/ CtorSetupMic
    \/ CtorModel
    \/ CtorModelRaises
    \/ CtorThreadStart
    \/ Listen
    \/ \E a \in Audios :
          pc.capture = "on" /\ nseg < MaxSegsStart /\ recorder_callback(a)
    \/ transcribe
    \/ stop("main")
    \/ PollWhile
    \/ get_last_transcription
    \/ PollStore
    \/ PollTest

StartupSpec == StartInit /\ [][StartupNext]_vars

\* ---------------------------------------------------------------- C13
WorkerStarted == pc.worker # "unstarted"
ConstructionFailed == pc.main \in {"failed_mic", "failed_model"}

\* C13: the worker thread runs only once setup_mic has returned a device and
\* the engine is constructed; capture is registered only once the worker
\* thread runs; a setup_mic that finds no device fails construction; and after
\* a failed construction no thread is started, capture is never registered
\* and nothing runs any more.
C13_StartupOrder ==
    /\ [](WorkerStarted =>
            /\ default_mic # NoDevice
            /\ pc.main \notin {"setup_mic", "model", "thread_start"}
            /\ ~ConstructionFailed)
    /\ [](pc.capture = "on" => WorkerStarted /\ pc.main # "listen")
    /\ [][(pc.main = "setup_mic" /\ default_mic' = NoDevice)
            => pc'.main = "failed_mic"]_vars
    /\ [](ConstructionFailed => ~WorkerStarted /\ pc.capture = "off")
    /\ [][ConstructionFailed => pc' = pc /\ nseg' = nseg]_vars

\* the default device was missing, device 1 was the first with input
\* channels, and a captured segment went through the started worker
C13_Witness ==
    /\ default_mic = 1
    /\ pc.capture = "on"
    /\ WorkerStarted
    /\ Len(engine_in) = 1

\* ---------------------------------------------------------------- C14
\* a stop() call has begun: by the API caller, or by the poll loop, which
\* calls it in the step that prints a text containing the keyword
StopCalled ==
    \/ nstops >= 1
    \/ \E i \in 1..Len(printed) : MentionsStop(printed[i])

\* C14: is_listening is true as long as no stop() call has begun and false
\* once a stop() call has passed its assignment; it never goes from false to
\* true, and the only step that changes it is the assignment inside stop().
C14_FlagClearedOnceByStop ==
    /\ [](~StopCalled => is_listening)
    /\ []((SentinelEnqueued \/ \E t \in StopCallers : pc[t] = "stop_put")
            => ~is_listening)
    /\ [][~is_listening => ~is_listening']_vars
    /\ [][is_listening' # is_listening
            => \E t \in StopCallers :
                   pc[t] = "stop_flag" /\ pc'[t] = "stop_put"]_vars

\* two stop() calls have completed and the worker has run on since
C14_Witness ==
    /\ ~is_listening
    /\ NumSentinels(enqueued) = 2
    /\ Terminated
    /\ pc.main = "exited"

\* ---------------------------------------------------------------- C15
\* C15: once a stop() call has cleared the flag and put its sentinel, the
\* worker begins the engine call of at most one further segment, and its next
\* evaluation of the loop condition ends the loop, however many segments wait
\* in the queue.
C15_OneSegmentAfterStop ==
    /\ [](after_stop <= 1)
    /\ [][(StopCompleted /\ pc.worker = "while" /\ pc'.worker # "while")
            => pc'.worker = "exit_flag"]_vars

\* one segment was transcribed after stop() and the worker left while another
\* segment was still waiting ahead of the sentinel
C15_Witness ==
    /\ after_stop = 1
    /\ pc.worker = "exit_flag"
    /\ Len(data_queue) = 2
    /\ data_queue[1].id # 0
    /\ data_queue[2] = STOP

\* ---------------------------------------------------------------- C16
Crashed == pc.worker = "crashed"

\* C16: the step in which the engine raises, at its call or while its result
\* is iterated, ends the worker and changes nothing else: transcript,
\* last_transcription, is_listening, mutex, queue and the other threads'
\* positions are as they were just before it, entries of the failed segment
\* published before the exception included.  From then on the worker takes
\* nothing from the queue, hands nothing to the engine and appends nothing;
\* is_listening stays true until somebody calls stop(), the mutex is never
\* left held, capture can still enqueue and the poll loop can still step.
C16_EngineFailureIsSilent ==
    /\ [][(~Crashed /\ Crashed')
            => /\ pc.worker \in {"engine", "for"}
               /\ UNCHANGED <<transcription, last_transcription, is_listening,
                              lock, data_queue, unfinished_tasks, dequeued,
                              entry_seg, mainLocals>>
               /\ pc'.main = pc.main
               /\ pc'.caller = pc.caller
               /\ pc'.capture = pc.capture]_vars
    /\ [][Crashed
            => /\ Crashed'
               /\ UNCHANGED <<transcription, engine_in, dequeued, entry_seg>>
               /\ IsPrefix(data_queue, data_queue')
               /\ last_transcription' \in {last_transcription, EmptyStr}]_vars
    /\ []((Crashed /\ ~StopCalled) => is_listening)
    /\ [](Crashed => lock # "worker")
    /\ [](Crashed => ENABLED (\E a \in Audios : recorder_callback(a)))
    /\ []((Crashed /\ pc.main # "exited")
            => ENABLED (PollWhile \/ get_last_transcription \/ PollStore
                          \/ PollTest \/ stop("main")))

\* the engine raised while the first segment's result was iterated, after one
\* entry; capture has put another segment since, and the poll loop is inside
\* get_last_transcription
C16_Witness ==
    /\ Crashed
    /\ is_listening
    /\ Len(engine_in) = 1
    /\ Len(dequeued) = 1
    /\ unfinished_tasks = 2
    /\ Len(data_queue) = 1
    /\ data_queue[1].id = 2
    /\ pc.main = "glt_read"
    /\ transcription = <<EmptyStr, <<110,111,110,83,84,79,80>> >>     \* "nonSTOP"
    /\ last_transcription = <<110,111,110,83,84,79,80>>

\* ---------------------------------------------------------------- C17
\* C17: a recorder_callback invocation puts exactly one segment at the tail of
\* the queue and leaves the transcript, last_transcription, is_listening, the
\* mutex, every thread's position and the worker's locals and progress as
\* they were; it has no precondition, so it never waits.
C17_CallbackOnlyEnqueues ==
    /\ [][nseg' # nseg
            => /\ nseg' = nseg + 1
               /\ Len(data_queue') = Len(data_queue) + 1
               /\ SubSeq(data_queue', 1, Len(data_queue)) = data_queue
               /\ data_queue'[Len(data_queue')].id = nseg'
               /\ data_queue'[Len(data_queue')].audio \in Audios
               /\ UNCHANGED <<transcription, last_transcription, is_listening,
                              lock, pc, workerLocals, mainLocals, dequeued,
                              engine_in, entry_seg>>]_vars
    /\ [](ENABLED (\E a \in Audios : recorder_callback(a)))

\* the second segment was put behind the sentinel while the worker is inside
\* its publish step for the first
C17_Witness ==
    /\ nseg = 2
    /\ data_queue = <<STOP, [id |-> 2, audio |-> "nonstop"]>>
    /\ pc.worker = "set_last"
    /\ lock = "worker"
    /\ transcription = <<EmptyStr, <<104, 101, 108, 108, 111>> >>     \* "hello"

\* ---------------------------------------------------------------- C18
\* C18: stop() leaves capture registered, and once the worker has terminated
\* it stays terminated, recorder_callback can still put segments, and the
\* queue only grows at its tail: nothing that is in it is ever taken out.
C18_CaptureOutlivesWorker ==
    /\ [](pc.capture = "on")
    /\ [](Terminated => ENABLED (\E a \in Audios : recorder_callback(a)))
    /\ [][Terminated
            => /\ Terminated'
               /\ dequeued' = dequeued
               /\ IsPrefix(data_queue, data_queue')]_vars

\* the worker left on the sentinel; the segment captured after stop() sits in
\* the queue
C18_Witness ==
    /\ pc.worker = "exit_sentinel"
    /\ ~is_listening
    /\ dequeued = <<1, 0>>
    /\ Len(data_queue) = 1
    /\ data_queue[1].id = 2
    /\ enqueued = <<1, 0, 2>>

\* ---------------------------------------------------------------- C19
\* stop() calls begun by the poll loop: each one prints a keyword text first
MainStopCount == Cardinality({i \in 1..Len(printed) : MentionsStop(printed[i])})

\* C19: the poll loop calls stop() at most once.  From that call on it is
\* inside stop(), at the loop test or out of the loop, never again in
\* get_last_transcription; back at the loop test the flag is false, the test
\* can be taken whatever the worker is doing, and it leaves the loop.
C19_PollLoopStopsOnce ==
    /\ [](MainStopCount <= 1)
    /\ [][(pc.main # "stop_log" /\ pc'.main = "stop_log")
            => (MainStopCount = 0 /\ MainStopCount' = 1)]_vars
    /\ [](MainStopCount >= 1
            => pc.main \in {"stop_log", "stop_flag", "stop_put", "while", "exited"})
    /\ []((MainStopCount >= 1 /\ pc.main = "while")
            => (~is_listening /\ ENABLED PollWhile))
    /\ [][(pc.main = "while" /\ ~is_listening /\ pc'.main # "while")
            => pc'.main = "exited"]_vars
    /\ [][pc.main = "exited" => pc'.main = "exited"]_vars

\* the poll loop has stopped the object and left, nobody else called stop(),
\* and the worker is about to transcribe a second keyword segment
C19_Witness ==
    /\ pc.main = "exited"
    /\ MainStopCount = 1
    /\ nstops = 0
    /\ NumSentinels(enqueued) = 1
    /\ pc.worker = "engine"
    /\ audio_data = [id |-> 2, audio |-> "nonstop"]

\* ---------------------------------------------------------------- C20
InStop(t) == pc[t] \in {"stop_log", "stop_flag", "stop_put"}

\* C20: the worker holds the mutex exactly while it is at the two assignments
\* of its publish step, so not while it waits on the queue or runs the engine;
\* a get_last_transcription() call waiting for the mutex gets through (or is
\* cut short by KeyboardInterrupt); every step of stop() and recorder_callback
\* can be taken in whatever state the rest is in, and a stop() call that has
\* begun comes to its end.
C20_NothingBlocksForever ==
    /\ [](lock = "worker" <=> pc.worker \in {"append", "set_last"})
    /\ (pc.main = "glt_acquire") ~> (pc.main \in {"if_len", "exited"})
    /\ \A t \in StopCallers : [](InStop(t) => ENABLED stop(t))
    /\ \A t \in StopCallers : InStop(t) ~> ~InStop(t)
    /\ [](ENABLED (\E a \in Audios : recorder_callback(a)))

\* the other caller's stop() has returned while the worker is between the
\* engine call and the publish of the segment's entry
C20_Witness ==
    /\ pc.caller = "idle"
    /\ nstops = 1
    /\ ~is_listening
    /\ SentinelEnqueued
    /\ pc.worker = "for"
    /\ segments # << >>
    /\ Len(engine_in) = 1

====
